---- MODULE Spec2Model ----
\* Model of server/patch_server.py: a one-shot patcher that reads
\* /opt/openclaw/server.cjs, conditionally inserts an import line (Rule A)
\* and a routing block (Rule B), and writes the file back.
\*
\* Text is a sequence of atoms.  Every literal of the script is spelt as a
\* sequence of atoms chosen so that each substring relation between the
\* script's literals ('handleApiRequest' inside 'handleApiRequest(req, res)',
\* '/api' inside '/api/', ...) is a subsequence relation between the atom
\* sequences.  Python's `in`, str.replace and str.split are modelled on these
\* sequences by what they do.
EXTENDS Integers, Sequences, FiniteSets, TLC

\* ---------------------------------------------------------------- bounds
MaxFrags == 3      \* an initial file is at most this many fragments long
MaxRuns == 2       \* number of successive invocations of the script

\* ------------------------------------------------------- Python str model
\* needle n occurs in haystack h at (1-based) position i
IsAt(n, h, i) ==
    /\ i >= 1
    /\ i + Len(n) - 1 <= Len(h)
    /\ \A k \in 1..Len(n) : h[i + k - 1] = n[k]

\* Python `n in h`
Contains(n, h) == \E i \in 1..(Len(h) - Len(n) + 1) : IsAt(n, h, i)

\* position of the first occurrence of n in h, 0 when there is none
Find(n, h) ==
    IF Contains(n, h)
    THEN CHOOSE i \in 1..(Len(h) - Len(n) + 1) :
            /\ IsAt(n, h, i)
            /\ \A j \in 1..(i - 1) : ~IsAt(n, h, j)
    ELSE 0

RECURSIVE Replace(_, _, _, _)
\* Python s.replace(o, n, count); count = -1 replaces every occurrence
Replace(s, o, n, count) ==
    IF count = 0 \/ Find(o, s) = 0
    THEN s
    ELSE LET i == Find(o, s)
         IN  SubSeq(s, 1, i - 1) \o n \o
             Replace(SubSeq(s, i + Len(o), Len(s)), o, n, count - 1)

RECURSIVE Split(_, _)
\* Python s.split(sep): the list of pieces between occurrences of sep
Split(s, sep) ==
    IF Find(sep, s) = 0
    THEN << s >>
    ELSE LET i == Find(sep, s)
         IN  << SubSeq(s, 1, i - 1) >> \o Split(SubSeq(s, i + Len(sep), Len(s)), sep)

\* ------------------------------------------------- literals of the script
HttpAnchor == << "const http = require('http');" >>
ImportLine == << "const { ", "handleApiRequest", " } = require('./api.cjs');" >>
HttpReplacement == HttpAnchor \o << "\n" >> \o ImportLine
Marker == << "handleApiRequest" >>
ApiPrefix == << "/api", "/" >>
CallMarker == << "handleApiRequest", "(req, res)" >>
CreateServer == << "createServer" >>
old == << "    let filePath = path.join(DIST_DIR" >>
RouteBlock ==
    << "    // --- REST API Routes ---\n    if (req.url.startsWith('",
       "/api", "/", "') || req.url === '", "/api", "') {\n        ",
       "handleApiRequest", "(req, res)", ";\n        return;\n    }\n\n" >>
new == RouteBlock \o old

PatchA == "[PATCH] Added API require"
SkipA == "[SKIP] API require already present"
PatchB == "[PATCH] Added API route interception"
SkipB == "[SKIP] API routes already present"
DoneMsg == "[DONE] server.cjs patched successfully"

\* ------------------------------------------------------ initial file texts
OtherText == << "// other text\n" >>
Fragments ==
    { OtherText, HttpAnchor, ImportLine, old, CreateServer, ApiPrefix,
      CallMarker, RouteBlock }

RECURSIVE Texts(_)
\* every concatenation of at most n fragments
Texts(n) ==
    IF n = 0 THEN { << >> }
    ELSE Texts(n - 1) \cup { t \o f : t \in Texts(n - 1), f \in Fragments }

\* ------------------------------------------------------------------ state
VARIABLES
    exists,     \* the target file exists
    disk,       \* content of /opt/openclaw/server.cjs
    content,    \* the script's variable `content`
    out,        \* lines printed by the current run
    pc,         \* position of the current run
    err,        \* exception that ended the current run
    run,        \* ordinal of the current run
    readc,      \* history: content as read by the current run
    afterA,     \* history: content after Rule A of the current run
    disk0,      \* history: file content when the current run started
    orig,       \* history: file content before the first run
    writes,     \* history: number of writes of the current run
    prevDone    \* history: the previous run completed

vars == << exists, disk, content, out, pc, err, run, readc, afterA, disk0,
           orig, writes, prevDone >>

Init ==
    /\ exists \in BOOLEAN
    /\ disk \in (IF exists THEN Texts(MaxFrags) ELSE { << >> })
    /\ content = << >>
    /\ out = << >>
    /\ pc = "read"
    /\ err = "none"
    /\ run = 1
    /\ readc = << >>
    /\ afterA = << >>
    /\ disk0 = disk
    /\ orig = disk
    /\ writes = 0
    /\ prevDone = FALSE

\* ---------------------------------------------------------------- Rule A
RuleAPresentCall(c) == Contains(CallMarker, c)
\* the `else` branch of Rule A: the marker identifier is in the content
RuleAPresent(c) == Contains(Marker, c)

RuleAReplace(c) == Replace(c, HttpAnchor, HttpReplacement, -1)

\* ---------------------------------------------------------------- Rule B
\* content.split('createServer')[1] raises IndexError
RuleBRaises(c) == Contains(ApiPrefix, c) /\ Len(Split(c, CreateServer)) < 2

RuleBNeedsPatchWhole(c) ==
    \/ ~Contains(ApiPrefix, c)
    \/ ~Contains(CallMarker, c)
\* the `if` condition of Rule B (evaluated only where it does not raise)
RuleBNeedsPatch(c) ==
    \/ ~Contains(ApiPrefix, c)
    \/ ~Contains(CallMarker, Split(c, CreateServer)[2])

RuleBReplaceAll(c) == Replace(c, old, new, -1)
RuleBReplace(c) == Replace(c, old, new, 1)

\* ---------------------------------------------------------------- actions
\* with open(..., 'r') as f: content = f.read()
Read ==
    /\ pc = "read"
    /\ IF exists
       THEN /\ content' = disk
            /\ readc' = disk
            /\ pc' = "ruleA"
            /\ err' = err
       ELSE /\ pc' = "crashed"
            /\ err' = "FileNotFoundError"
            /\ UNCHANGED << content, readc >>
    /\ UNCHANGED << exists, disk, out, run, afterA, disk0, orig, writes, prevDone >>

RuleAWriteThrough ==
    /\ pc = "ruleA"
    /\ IF ~RuleAPresent(content)
       THEN /\ content' = RuleAReplace(content)
            /\ out' = Append(out, PatchA)
       ELSE /\ content' = content
            /\ out' = Append(out, SkipA)
    /\ afterA' = content'
    /\ disk' = content'
    /\ pc' = "ruleB"
    /\ UNCHANGED << exists, err, run, readc, disk0, orig, writes, prevDone >>

\* 1. Add the require statement after http require
RuleA ==
    /\ pc = "ruleA"
    /\ IF ~RuleAPresent(content)
       THEN /\ content' = RuleAReplace(content)
            /\ out' = Append(out, PatchA)
       ELSE /\ content' = content
            /\ out' = Append(out, SkipA)
    /\ afterA' = content'
    /\ pc' = "ruleB"
    /\ UNCHANGED << exists, disk, err, run, readc, disk0, orig, writes, prevDone >>

\* 2. Add API route interception before static file serving
RuleB ==
    /\ pc = "ruleB"
    /\ IF RuleBRaises(content)
       THEN /\ pc' = "crashed"
            /\ err' = "IndexError"
            /\ UNCHANGED << content, out >>
       ELSE /\ IF RuleBNeedsPatch(content)
               THEN /\ content' = RuleBReplace(content)
                    /\ out' = Append(out, PatchB)
               ELSE /\ content' = content
                    /\ out' = Append(out, SkipB)
            /\ pc' = "write"
            /\ err' = err
    /\ UNCHANGED << exists, disk, run, readc, afterA, disk0, orig, writes, prevDone >>

\* with open(..., 'w') as f: f.write(content)
Write ==
    /\ pc = "write"
    /\ disk' = content
    /\ writes' = writes + 1
    /\ pc' = "report"
    /\ UNCHANGED << exists, content, out, err, run, readc, afterA, disk0, orig, prevDone >>

\* print('[DONE] server.cjs patched successfully')
Done ==
    /\ pc = "report"
    /\ out' = Append(out, DoneMsg)
    /\ pc' = "done"
    /\ UNCHANGED << exists, disk, content, err, run, readc, afterA, disk0, orig, writes, prevDone >>

\* the script is invoked again on the same file: a fresh process
Rerun ==
    /\ pc \in { "done", "crashed" }
    /\ run < MaxRuns
    /\ run' = run + 1
    /\ prevDone' = (pc = "done")
    /\ pc' = "read"
    /\ err' = "none"
    /\ content' = << >>
    /\ out' = << >>
    /\ readc' = << >>
    /\ afterA' = << >>
    /\ disk0' = disk
    /\ writes' = 0
    /\ UNCHANGED << exists, disk, orig >>

Next == Read \/ RuleA \/ RuleB \/ Write \/ Done \/ Rerun

Spec == Init /\ [][Next]_vars

TypeOK ==
    /\ exists \in BOOLEAN
    /\ pc \in { "read", "ruleA", "ruleB", "write", "report", "done", "crashed" }
    /\ err \in { "none", "FileNotFoundError", "IndexError" }
    /\ run \in 1..MaxRuns

\* ------------------------------------------------- vocabulary of the claims
\* number of positions at which n occurs in h
Count(n, h) == Cardinality({ i \in 1..(Len(h) - Len(n) + 1) : IsAt(n, h, i) })

\* s with ins inserted so that it starts at position i
InsertAt(s, i, ins) == SubSeq(s, 1, i - 1) \o ins \o SubSeq(s, i, Len(s))

\* the whole text that follows the first occurrence of n in h
RemainderAfter(n, h) ==
    IF Find(n, h) = 0 THEN << >> ELSE SubSeq(h, Find(n, h) + Len(n), Len(h))

\* the text that precedes the first occurrence of n in h
Before(n, h) ==
    IF Find(n, h) = 0 THEN h ELSE SubSeq(h, 1, Find(n, h) - 1)

\* Rule A of the current run has been evaluated
PostA == pc \in { "ruleB", "write", "report", "done" } \/ err = "IndexError"
\* Rule B of the current run has been evaluated without raising
PostB == pc \in { "write", "report", "done" }
\* the current run has ended
Ended == pc \in { "done", "crashed" }

\* C1: when the script is run again on the file a completed run left, the
\* second run completes and leaves the file content as the first run left it.
C1_Idempotent ==
    (run >= 2 /\ prevDone /\ Ended) => (pc = "done" /\ disk = disk0)

\* C2: on content with the http anchor and without the marker, Rule A yields
\* the content with one import line inserted right after the first anchor,
\* everything else unchanged.
C2_RuleAInsertsOnce ==
    (PostA /\ Contains(HttpAnchor, readc) /\ ~Contains(Marker, readc)) =>
        /\ afterA = InsertAt(readc, Find(HttpAnchor, readc) + Len(HttpAnchor),
                             << "\n" >> \o ImportLine)
        /\ Count(ImportLine, afterA) = 1

\* C3: on content with the static-path anchor and without '/api/', Rule B
\* takes the [PATCH] path and yields the content with exactly one routing
\* block, inserted immediately before the first anchor only.
C3_RuleBInsertsOnce ==
    (PostB /\ Contains(old, afterA) /\ ~Contains(ApiPrefix, afterA)) =>
        /\ out[2] = PatchB
        /\ content = InsertAt(afterA, Find(old, afterA), RouteBlock)
        /\ Count(RouteBlock, content) = 1
        /\ Count(old, content) = Count(old, afterA)

C3_Witness ==
    /\ PostB
    /\ ~Contains(ApiPrefix, afterA)
    /\ Count(old, afterA) >= 2
    /\ out[2] = PatchB

\* C4: when '/api/' (and any call marker) occurs before the first
\* 'createServer' and not after it, Rule B does not raise, takes the [PATCH]
\* path and puts the routing block before the first static-path anchor.
C4_PrefixOnlyBeforeIsUnpatched ==
    ( /\ pc \in { "write", "report", "done", "crashed" }
      /\ PostA
      /\ Contains(CreateServer, afterA)
      /\ Contains(ApiPrefix, Before(CreateServer, afterA))
      /\ ~Contains(ApiPrefix, RemainderAfter(CreateServer, afterA))
      /\ ~Contains(CallMarker, RemainderAfter(CreateServer, afterA)) ) =>
        /\ PostB
        /\ out[2] = PatchB
        /\ Contains(old, afterA) =>
              content = InsertAt(afterA, Find(old, afterA), RouteBlock)

C4_Witness ==
    /\ PostB
    /\ Contains(CallMarker, Before(CreateServer, afterA))
    /\ Contains(ApiPrefix, Before(CreateServer, afterA))
    /\ ~Contains(ApiPrefix, RemainderAfter(CreateServer, afterA))
    /\ Contains(old, RemainderAfter(CreateServer, afterA))
    /\ out[2] = PatchB
    /\ content # afterA

\* C5: a rule whose anchor is missing leaves the content as it was and raises
\* nothing: without the http anchor Rule A changes nothing, without the
\* static-path anchor Rule B changes nothing, and without 'createServer'
\* Rule B does not raise, so the run goes on to the write and [DONE].
C5_MissingAnchorNoOp ==
    /\ (PostA /\ ~Contains(HttpAnchor, readc)) => afterA = readc
    /\ (PostA /\ pc # "ruleB" /\ ~Contains(old, afterA)) =>
            (PostB /\ content = afterA)
    /\ (PostA /\ pc # "ruleB" /\ ~Contains(CreateServer, afterA)) => PostB

\* C6: on content that holds the marker identifier anywhere, Rule A takes the
\* [SKIP] path and hands the content to Rule B exactly as it was read.
C6_RuleASkip ==
    (PostA /\ Contains(Marker, readc)) => (out[1] = SkipA /\ afterA = readc)

C6_Witness ==
    /\ PostA
    /\ Contains(Marker, readc)
    /\ ~Contains(CallMarker, readc)
    /\ Contains(HttpAnchor, readc)
    /\ out[1] = SkipA

\* C7: a run writes the file at most once and only after both rules were
\* evaluated; until then, and when the run ends abnormally, the file is what
\* it was when the run started.
C7_NoWriteBeforeBothRules ==
    /\ writes <= 1
    /\ writes = 1 => (pc \in { "report", "done" } /\ Len(out) >= 2)
    /\ pc \in { "read", "ruleA", "ruleB", "write", "crashed" } =>
            (writes = 0 /\ disk = disk0)

C7_Witness ==
    /\ pc = "crashed"
    /\ err = "IndexError"
    /\ out = << PatchA >>
    /\ content # readc
    /\ disk = disk0

\* C8: a completed run prints one Rule A line, one Rule B line and [DONE];
\* a rule's line is [PATCH] exactly when the rule changed the content and
\* [SKIP] exactly when it did not.
C8_StatusMatchesEffect ==
    pc = "done" =>
        /\ Len(out) = 3
        /\ out[1] \in { PatchA, SkipA }
        /\ out[2] \in { PatchB, SkipB }
        /\ out[3] = DoneMsg
        /\ (out[1] = PatchA) <=> (afterA # readc)
        /\ (out[2] = PatchB) <=> (content # afterA)

\* C9: Rule B takes the [SKIP] path exactly when the content holds '/api/'
\* and the call marker occurs somewhere in the whole text after the first
\* 'createServer'; otherwise it takes the [PATCH] path.
C9_DetectionScope ==
    (PostA /\ pc # "ruleB") =>
        /\ Len(out) >= 2
        /\ IF /\ Contains(ApiPrefix, afterA)
              /\ Contains(CallMarker, RemainderAfter(CreateServer, afterA))
           THEN out[2] = SkipB
           ELSE out[2] = PatchB

\* C10: starting from a file with neither 'handleApiRequest' nor '/api/',
\* after every completed run the file holds the routing call only if it
\* also holds the import line.
C10_BlockImpliesImport ==
    ( /\ ~Contains(Marker, orig)
      /\ ~Contains(ApiPrefix, orig)
      /\ pc = "done" ) =>
        (Contains(CallMarker, disk) => Contains(ImportLine, disk))

====
